---- MODULE Spec2Model ----
(***************************************************************************)
(* RAM_MemoryCleaner: the working-set trimming thread (MemoryCleaner.run)  *)
(* and the part of MonitorWidget that starts it and receives its result.   *)
(*                                                                         *)
(* app_V1.py and app_V3.py hold the same MemoryCleaner.run, clean_memory,  *)
(* on_clean_done and set_cleaning_ui; line numbers below are app_V1.py's.  *)
(*                                                                         *)
(* Byte counts are kept in units of 128 bytes, so that the samples of the  *)
(* specification's scenarios (2,000,000,000 and 2,300,000,000 bytes) and   *)
(* the 32-bit range of a C int are all exact.                              *)
(*                                                                         *)
(* Every call the thread makes on the operating system or on the runtime   *)
(* is appended to trace[r], the call log of run r.                         *)
(***************************************************************************)
EXTENDS Integers, Sequences, FiniteSets

\* ------------------------------------------------------------------ bounds

\* MemoryCleaner objects created in one behaviour (calls of clean_memory).
MaxRuns == 2

\* Processes on the host besides pid 0, pid 4 and the program itself.
MaxOthers == 1

\* --------------------------------------------------------------- constants

\* No handle: h = None, and the NULL OpenProcess returns when refused.
NULL == 0

\* The pseudo handle GetCurrentProcess() returns.
SelfHandle == -1

\* System Idle Process and System: `if pid in (0, 4)`.
SystemIdlePid == 0
SystemPid == 4

\* The pid of the program itself, which psutil.process_iter also yields.
OwnPid == 8

\* Signal(int) carries a C int: 2^32 bytes, in units of 128 bytes.
CIntModulus == 33554432

Runs == 1..MaxRuns

OtherPids == {OwnPid + 4 * k : k \in 1..MaxOthers}

\* The pids psutil.process_iter can yield.
Pids == {SystemIdlePid, SystemPid, OwnPid} \cup OtherPids

\* psutil.virtual_memory().available: 2,000,000,000, 2,300,000,000 and
\* 5,000,000,000 bytes.
Samples == {15625000, 17968750, 39062500}

\* What a ctypes call can do: succeed, be refused (return 0), or raise.
OpenOutcomes == {"handle", "null", "raise"}
TrimOutcomes == {"ok", "refused", "raise"}

\* What the program meets in one behaviour: the processes process_iter can
\* find on the host, the values its available memory takes, and how many
\* times the user asks for a clean.  A single clean is followed over the
\* whole host; repeated and overlapping cleans are followed with an
\* enumeration that finds no process and with two sample values.
Scenarios ==
    {[pids |-> Pids, samples |-> Samples, triggers |-> 1],
     [pids |-> {}, samples |-> {15625000, 17968750}, triggers |-> MaxRuns]}

VARIABLES
    scenario,     \* the host and the user, fixed from the start
    clean_btn,    \* clean_btn.isEnabled()
    action_btn,   \* action_btn.isEnabled()
    act_clean,    \* the tray menu's "Clean RAM" action: act_clean.isEnabled()
    cleaner,      \* self.cleaner: the latest MemoryCleaner (0: none yet)
    thr,          \* thr[r]: the locals and the position of MemoryCleaner r's run()
    trace,        \* trace[r]: the calls run r has made, in order
    handles,      \* the process handles open in the program's handle table
    queue,        \* finished_with_freed emissions queued to the GUI thread
    delivered     \* delivered[r]: calls of on_clean_done for run r

vars == <<scenario, clean_btn, action_btn, act_clean, cleaner, thr, trace, handles,
          queue, delivered>>

\* -------------------------------------------------------------- call log

Ev(op, pid, h, res, val) ==
    [op |-> op, pid |-> pid, h |-> h, res |-> res, val |-> val]

Log(r, e) == [trace EXCEPT ![r] = Append(@, e)]

\* The handle the k-th successful OpenProcess of run r returns: handles are
\* identified by the open that produced them.
NewHandle(r) ==
    (r - 1) * Cardinality(Pids)
      + Cardinality({i \in 1..Len(trace[r]) :
                       trace[r][i].op = "open" /\ trace[r][i].h # NULL}) + 1

\* ------------------------------------------------------------ MonitorWidget

NoThread ==
    [pc |-> "none", before |-> 0, after |-> 0, pid |-> -1, h |-> NULL,
     last |-> -1]

Init ==
    /\ scenario \in Scenarios
    /\ clean_btn = TRUE
    /\ action_btn = TRUE
    /\ act_clean = TRUE
    /\ cleaner = 0
    /\ thr = [r \in Runs |-> NoThread]
    /\ trace = [r \in Runs |-> <<>>]
    /\ handles = {}
    /\ queue = <<>>
    /\ delivered = [r \in Runs |-> 0]

\* set_cleaning_ui(cleaning): the two tool buttons, and nothing else.
set_cleaning_ui(cleaning) ==
    /\ clean_btn' = ~cleaning
    /\ action_btn' = ~cleaning
    /\ act_clean' = act_clean

\* clean_memory: disable the buttons, make a new MemoryCleaner, start it.
clean_memory ==
    /\ cleaner < scenario.triggers
    /\ set_cleaning_ui(TRUE)
    /\ cleaner' = cleaner + 1
    /\ thr' = [thr EXCEPT ![cleaner + 1].pc = "before"]
    /\ UNCHANGED <<scenario, trace, handles, queue, delivered>>

\* clean_btn.clicked.connect(self.clean_memory)
ClickCleanBtn ==
    /\ clean_btn
    /\ clean_memory

\* act_clean.triggered.connect(self.clean_memory)
TriggerActClean ==
    /\ act_clean
    /\ clean_memory

\* on_clean_done: the GUI thread takes the oldest queued emission.
on_clean_done ==
    /\ queue # <<>>
    /\ set_cleaning_ui(FALSE)
    /\ delivered' = [delivered EXCEPT ![Head(queue).run] = @ + 1]
    /\ queue' = Tail(queue)
    /\ UNCHANGED <<scenario, cleaner, thr, trace, handles>>

\* -------------------------------------------------------- MemoryCleaner.run

\* Mutant: the delta is emitted as it is.
Clamp_Unclamped(d) == d

\* freed = after - before; if freed < 0: freed = 0
Clamp(d) == IF d < 0 THEN 0 ELSE d

\* The value a Signal(int) carries for the Python int v: the C int with the
\* same low 32 bits.
ToCInt(v) ==
    LET m == v % CIntModulus
    IN  IF 2 * m >= CIntModulus THEN m - CIntModulus ELSE m

\* Mutant: only pid 0 is skipped.
IsSkipped_OnlyIdle(pid) == pid = SystemIdlePid

\* `if pid in (0, 4): continue`
IsSkipped(pid) == pid \in {SystemIdlePid, SystemPid}

\* Mutant: the self-trim is not in a try, and what it raises ends run().
AfterSelfTrim_Uncaught(o) == IF o = "raise" THEN "died" ELSE "iter"

\* try: EmptyWorkingSet(GetCurrentProcess()) / except Exception: pass
AfterSelfTrim(o) == "iter"

\* Mutant: no second tier; a refused first OpenProcess leads straight to the
\* finally clause.
AfterOpen1_NoSecondTier(o) ==
    CASE o = "handle" -> "trim"
      [] o = "null"   -> "finally"
      [] o = "raise"  -> "finally"

\* Mutant: no except clause; the finally clause runs and the exception of the
\* first OpenProcess ends run().
AfterOpen1_Uncaught(o) ==
    CASE o = "handle" -> "trim"
      [] o = "null"   -> "open2"
      [] o = "raise"  -> "died"

\* h = OpenProcess(QUERY_INFORMATION | SET_QUOTA, ...); `if not h:` leads to
\* the second open, `if h:` to the trim, an exception to the finally clause.
AfterOpen1(o) ==
    CASE o = "handle" -> "trim"
      [] o = "null"   -> "open2"
      [] o = "raise"  -> "finally"

\* Mutant: a process refused at both tiers ends the loop (`break`).
AfterOpen2_Break(o) ==
    CASE o = "handle" -> "trim"
      [] o = "null"   -> "after"
      [] o = "raise"  -> "finally"

\* h = OpenProcess(QUERY_LIMITED_INFORMATION | SET_QUOTA, ...), then `if h:`.
AfterOpen2(o) ==
    CASE o = "handle" -> "trim"
      [] o = "null"   -> "finally"
      [] o = "raise"  -> "finally"

\* Mutant: CloseHandle follows the trim inside the try, with no finally, so
\* an exception of the trim goes past it to the next record.
AfterTrim_NoFinally(o) == IF o = "raise" THEN "iter" ELSE "finally"

\* EmptyWorkingSet(h) inside the try: its result is not read, and
\* `except Exception: pass` takes what it raises.
AfterTrim(o) == "finally"

\* finally: `if h:` decides whether CloseHandle(h) is called.
MustClose(h) == h # NULL

\* Mutant: the result is computed without a second sample.
AfterLoop_NoSample == "emit"

\* The StopIteration of the for loop leads to the second sample.
AfterLoop == "after"

Goto(r, pc) == [thr EXCEPT ![r].pc = pc]

\* before = psutil.virtual_memory().available
SampleBefore(r) ==
    /\ thr[r].pc = "before"
    /\ \E v \in scenario.samples :
         /\ thr' = [thr EXCEPT ![r].pc = "gc", ![r].before = v]
         /\ trace' = Log(r, Ev("sample", -1, NULL, "ok", v))
    /\ UNCHANGED <<scenario, clean_btn, action_btn, act_clean, cleaner, handles, queue,
                   delivered>>

\* gc.collect()
GcCollect(r) ==
    /\ thr[r].pc = "gc"
    /\ thr' = Goto(r, "selftrim")
    /\ trace' = Log(r, Ev("gc", -1, NULL, "ok", 0))
    /\ UNCHANGED <<scenario, clean_btn, action_btn, act_clean, cleaner, handles, queue,
                   delivered>>

\* EmptyWorkingSet(GetCurrentProcess()) in its own try/except.
SelfTrim(r) ==
    /\ thr[r].pc = "selftrim"
    /\ \E o \in TrimOutcomes :
         /\ thr' = Goto(r, AfterSelfTrim(o))
         /\ trace' = Log(r, Ev("trim", OwnPid, SelfHandle, o, 0))
    /\ UNCHANGED <<scenario, clean_btn, action_btn, act_clean, cleaner, handles, queue,
                   delivered>>

\* One step of `for p in psutil.process_iter(...)`: the next record, in the
\* order of the pids as psutil yields them (a process that has gone is left
\* out), with `pid = p.info["pid"]`, the skip of 0 and 4 and
\* `h = None`; or the end of the iteration.
NextRecord(r) ==
    /\ thr[r].pc = "iter"
    /\ \/ \E pid \in {p \in scenario.pids : p > thr[r].last} :
            /\ thr' = [thr EXCEPT
                         ![r].pc = IF IsSkipped(pid) THEN "iter" ELSE "open1",
                         ![r].pid = pid,
                         ![r].h = NULL,
                         ![r].last = pid]
            /\ trace' = Log(r, Ev("record", pid, NULL, "ok", 0))
       \/ /\ thr' = Goto(r, AfterLoop)
          /\ trace' = Log(r, Ev("stop", -1, NULL, "ok", 0))
    /\ UNCHANGED <<scenario, clean_btn, action_btn, act_clean, cleaner, handles, queue,
                   delivered>>

\* An OpenProcess call of run r with outcome o, leading to pc: a returned
\* handle is assigned to h and entered in the handle table; NULL is assigned
\* to h; an exception leaves h as it was.
OpenProcess(r, tier, o, pc) ==
    LET new == NewHandle(r)
        got == IF o = "handle" THEN new ELSE NULL
    IN  /\ thr' = [thr EXCEPT ![r].pc = pc,
                              ![r].h = IF o = "raise" THEN @ ELSE got]
        /\ trace' = Log(r, Ev("open", thr[r].pid, got, o, tier))
        /\ handles' = IF o = "handle" THEN handles \cup {new} ELSE handles

\* h = OpenProcess(PROCESS_QUERY_INFORMATION | PROCESS_SET_QUOTA, False, pid)
Open1(r) ==
    /\ thr[r].pc = "open1"
    /\ \E o \in OpenOutcomes : OpenProcess(r, 1, o, AfterOpen1(o))
    /\ UNCHANGED <<scenario, clean_btn, action_btn, act_clean, cleaner, queue, delivered>>

\* h = OpenProcess(PROCESS_QUERY_LIMITED_INFORMATION | PROCESS_SET_QUOTA, ...)
Open2(r) ==
    /\ thr[r].pc = "open2"
    /\ \E o \in OpenOutcomes : OpenProcess(r, 2, o, AfterOpen2(o))
    /\ UNCHANGED <<scenario, clean_btn, action_btn, act_clean, cleaner, queue, delivered>>

\* EmptyWorkingSet(h)
Trim(r) ==
    /\ thr[r].pc = "trim"
    /\ \E o \in TrimOutcomes :
         /\ thr' = Goto(r, AfterTrim(o))
         /\ trace' = Log(r, Ev("trim", thr[r].pid, thr[r].h, o, 0))
    /\ UNCHANGED <<scenario, clean_btn, action_btn, act_clean, cleaner, handles, queue,
                   delivered>>

\* finally: if h: CloseHandle(h); then the loop goes on.
Finally(r) ==
    /\ thr[r].pc = "finally"
    /\ thr' = Goto(r, "iter")
    /\ IF MustClose(thr[r].h)
         THEN /\ trace' = Log(r, Ev("close", thr[r].pid, thr[r].h, "ok", 0))
              /\ handles' = handles \ {thr[r].h}
         ELSE UNCHANGED <<trace, handles>>
    /\ UNCHANGED <<scenario, clean_btn, action_btn, act_clean, cleaner, queue, delivered>>

\* after = psutil.virtual_memory().available
SampleAfter(r) ==
    /\ thr[r].pc = "after"
    /\ \E v \in scenario.samples :
         /\ thr' = [thr EXCEPT ![r].pc = "emit", ![r].after = v]
         /\ trace' = Log(r, Ev("sample", -1, NULL, "ok", v))
    /\ UNCHANGED <<scenario, clean_btn, action_btn, act_clean, cleaner, handles, queue,
                   delivered>>

\* freed = after - before, clamped; self.finished_with_freed.emit(int(freed)).
\* The emission is queued to the GUI thread, where on_clean_done is its slot.
Emit(r) ==
    /\ thr[r].pc = "emit"
    /\ LET freed == Clamp(thr[r].after - thr[r].before)
       IN  /\ trace' = Log(r, Ev("emit", -1, NULL, "ok", ToCInt(freed)))
           /\ queue' = Append(queue, [run |-> r, value |-> ToCInt(freed)])
    /\ thr' = Goto(r, "done")
    /\ UNCHANGED <<scenario, clean_btn, action_btn, act_clean, cleaner, handles,
                   delivered>>

Next ==
    \/ ClickCleanBtn
    \/ TriggerActClean
    \/ on_clean_done
    \/ \E r \in Runs :
         \/ SampleBefore(r)
         \/ GcCollect(r)
         \/ SelfTrim(r)
         \/ NextRecord(r)
         \/ Open1(r)
         \/ Open2(r)
         \/ Trim(r)
         \/ Finally(r)
         \/ SampleAfter(r)
         \/ Emit(r)

Spec == Init /\ [][Next]_vars

\* A started QThread is scheduled until run() returns, and the GUI thread's
\* event loop delivers every queued emission.
Worker(r) ==
    \/ SampleBefore(r)
    \/ GcCollect(r)
    \/ SelfTrim(r)
    \/ NextRecord(r)
    \/ Open1(r)
    \/ Open2(r)
    \/ Trim(r)
    \/ Finally(r)
    \/ SampleAfter(r)
    \/ Emit(r)

Fairness ==
    /\ \A r \in Runs : WF_vars(Worker(r))
    /\ WF_vars(on_clean_done)

LiveSpec == Spec /\ Fairness

\* ------------------------------------------------------------- properties

\* The places in run r's call log of the calls named op.
Calls(r, op) == {i \in 1..Len(trace[r]) : trace[r][i].op = op}

\* run() of r has been started and has not returned.
Running(r) == thr[r].pc \notin {"none", "done", "died"}

\* run() of r has returned normally.
Returned(r) == thr[r].pc = "done"

\* The handles OpenProcess has returned to run r.
Opened(r) == {trace[r][i].h : i \in {j \in Calls(r, "open") : trace[r][j].h # NULL}}

\* The calls OpenProcess and EmptyWorkingSet of run r on process handles.
OpensAndTrims(r) ==
    {i \in Calls(r, "open") \cup Calls(r, "trim") : trace[r][i].h # SelfHandle}

\* C1: the value emitted on finished_with_freed is max(0, after - before):
\* after - before when after >= before, 0 otherwise, and never negative.
C1_EmitsClampedDelta ==
    \A r \in Runs : \A i \in Calls(r, "emit") :
        /\ trace[r][i].val >= 0
        /\ trace[r][i].val =
             IF thr[r].after >= thr[r].before
               THEN thr[r].after - thr[r].before
               ELSE 0

\* C2: every handle OpenProcess returns is closed exactly once on every path,
\* never closed twice, never trimmed after it was closed, closed before the
\* loop takes the next record, and none is open when the run ends.
C2_HandleClosedOnce ==
    \A r \in Runs :
        /\ \A i \in Calls(r, "open") :
             LET h == trace[r][i].h
                 closes == {j \in Calls(r, "close") : trace[r][j].h = h}
                 trims == {j \in Calls(r, "trim") : trace[r][j].h = h}
                 later == {j \in Calls(r, "record") \cup Calls(r, "stop") : j > i}
             IN  h # NULL =>
                   /\ Cardinality(closes) <= 1
                   /\ \A j \in closes : j > i
                   /\ \A j \in closes : \A k \in trims : k < j
                   /\ \A n \in later : \E j \in closes : j < n
                   /\ thr[r].pc \in {"after", "emit", "done"}
                        => Cardinality(closes) = 1
        /\ \A j \in Calls(r, "close") : trace[r][j].h \in Opened(r)
        /\ thr[r].pc \in {"iter", "after", "emit", "done"}
             => handles \cap Opened(r) = {}

\* A run has ended in which one handle's trim succeeded, another's was
\* refused or raised, and both handles were closed.
C2_Witness ==
    \E r \in Runs :
        /\ Returned(r)
        /\ \E i, j \in Calls(r, "trim") :
             /\ trace[r][i].h \in Opened(r)
             /\ trace[r][j].h \in Opened(r)
             /\ trace[r][i].res = "raise"
             /\ trace[r][j].res \in {"ok", "refused"}
        /\ Cardinality(Calls(r, "close")) = 2

\* C3: OpenProcess and EmptyWorkingSet are never called for pid 0 or pid 4;
\* such a record is followed at once by the next record or the loop's end.
C3_NeverTouchesSystemPids ==
    \A r \in Runs :
        /\ \A i \in Calls(r, "open") \cup Calls(r, "trim") :
             trace[r][i].pid \notin {0, 4}
        /\ \A i \in Calls(r, "record") :
             (trace[r][i].pid \in {0, 4} /\ i < Len(trace[r]))
               => trace[r][i + 1].op \in {"record", "stop"}

\* A run has ended that met pid 0 and pid 4 and opened another process.
C3_Witness ==
    \E r \in Runs :
        /\ Returned(r)
        /\ \E i, j \in Calls(r, "record") :
             trace[r][i].pid = 0 /\ trace[r][j].pid = 4
        /\ Opened(r) # {}

\* C4: at most one MemoryCleaner is running at a time: a run is entered only
\* when no earlier one is still running.
C4_SingleFlight == Cardinality({r \in Runs : Running(r)}) <= 1

\* C6: while a started run has not delivered its notification, no enabled
\* control can invoke clean_memory.
C6_TriggersDisabledInFlight ==
    (\E r \in Runs : thr[r].pc # "none" /\ delivered[r] = 0)
      => (~clean_btn /\ ~act_clean)

\* C7: in every run the own process is trimmed, after gc.collect() and
\* before any record is enumerated, and whatever the self-trim does the run
\* goes on to the enumeration.
C7_SelfTrimFirst ==
    \A r \in Runs :
        LET selfs == {i \in Calls(r, "trim") : trace[r][i].h = SelfHandle}
        IN  /\ Len(trace[r]) >= 2 => trace[r][2].op = "gc"
            /\ Len(trace[r]) >= 3 =>
                 /\ selfs = {3}
                 /\ thr[r].pc \notin {"selftrim", "died"}
                 /\ thr[r].pc \notin {"iter", "open1", "open2", "trim", "finally"}
                      => Calls(r, "stop") # {}
            /\ \A i \in Calls(r, "record") \cup Calls(r, "stop")
                        \cup OpensAndTrims(r) : i > 3
            /\ Returned(r) => selfs = {3}

\* A run has ended whose self-trim raised, whose enumeration met a process,
\* and in which no process was trimmed.
C7_Witness ==
    \E r \in Runs :
        /\ Returned(r)
        /\ trace[r][3].res = "raise"
        /\ Calls(r, "open") # {}
        /\ Cardinality(Calls(r, "trim")) = 1

\* C8: a run takes exactly two samples: the first before gc, the self-trim
\* and every OpenProcess, EmptyWorkingSet and CloseHandle, the second after
\* the last of them, and none in between.
C8_TwoSamples ==
    \A r \in Runs :
        LET samples == Calls(r, "sample")
            work == Calls(r, "gc") \cup Calls(r, "trim") \cup Calls(r, "open")
                      \cup Calls(r, "close")
        IN  /\ Len(trace[r]) >= 1 => 1 \in samples
            /\ Cardinality(samples) <= 2
            /\ \A i \in work : i > 1
            /\ \A s \in samples \ {1} : \A i \in work : i < s
            /\ Returned(r) =>
                 /\ samples = {1, Len(trace[r]) - 1}
                 /\ trace[r][Len(trace[r])].op = "emit"
                 /\ thr[r].before = trace[r][1].val
                 /\ thr[r].after = trace[r][Len(trace[r]) - 1].val

\* A run has ended that trimmed and closed a handle between its two samples.
C8_Witness ==
    \E r \in Runs :
        /\ Returned(r)
        /\ Calls(r, "close") # {}
        /\ \E i \in Calls(r, "trim") : trace[r][i].h \in Opened(r)

\* Every OpenProcess call of run r was refused, and there was one.
AllRefused(r) ==
    /\ Calls(r, "open") # {}
    /\ \A i \in Calls(r, "open") : trace[r][i].res = "null"

\* The value run r emitted, once it has.
Emitted(r) == {trace[r][i].val : i \in Calls(r, "emit")}

\* C9 as stated: a run in which every OpenProcess call is refused completes
\* and yields freed_bytes = 0.
C9_AllRefusedYieldsZero ==
    \A r \in Runs : (Returned(r) /\ AllRefused(r)) => Emitted(r) = {0}

\* C9 as amended: a run in which every OpenProcess call is refused completes
\* without error and emits one value, which is 0 whenever the second sample
\* is not above the first.
C9_AllRefusedCompletes ==
    \A r \in Runs :
        AllRefused(r) =>
          /\ thr[r].pc # "died"
          /\ Returned(r) =>
               /\ Cardinality(Calls(r, "emit")) = 1
               /\ thr[r].after <= thr[r].before => Emitted(r) = {0}

\* A run has ended in which two records were refused at both tiers and the
\* second sample was below the first.
C9_Witness ==
    \E r \in Runs :
        /\ Returned(r)
        /\ AllRefused(r)
        /\ Cardinality(Calls(r, "open")) = 4
        /\ thr[r].after < thr[r].before

\* C10: no process, the own one included, has EmptyWorkingSet requested on
\* it more than once in a run.
C10_OneTrimPerProcess ==
    \A r \in Runs : \A pid \in Pids :
        Cardinality({i \in Calls(r, "trim") : trace[r][i].pid = pid}) <= 1

\* The calls OpenProcess, EmptyWorkingSet and CloseHandle run r made while
\* handling the record of pid.
Handling(r, pid) ==
    {i \in OpensAndTrims(r) \cup Calls(r, "close") : trace[r][i].pid = pid}

\* The OpenProcess calls of run r for pid at tier t (1: PROCESS_QUERY_INFORMATION,
\* 2: PROCESS_QUERY_LIMITED_INFORMATION).
OpensAt(r, pid, t) ==
    {i \in Calls(r, "open") : trace[r][i].pid = pid /\ trace[r][i].val = t}

\* C11: every enumerated record with pid not in {0, 4} gets an acquisition
\* attempt, whatever earlier records of the run met (refused open, refused
\* trim, exception); no failure in the handling of one process ends the loop
\* or ends run(): the loop ends only when the enumeration is exhausted.
C11_FailureIsolation ==
    \A r \in Runs :
        /\ thr[r].pc # "died"
        /\ \A i \in Calls(r, "record") :
             trace[r][i].pid \notin {0, 4} =>
               IF i < Len(trace[r])
                 THEN /\ trace[r][i + 1].op = "open"
                      /\ trace[r][i + 1].pid = trace[r][i].pid
                      /\ trace[r][i + 1].val = 1
                 ELSE thr[r].pc = "open1"
        /\ \A i \in OpensAndTrims(r) \cup Calls(r, "close") :
             IF i < Len(trace[r])
               THEN \/ trace[r][i + 1].op \in {"record", "stop"}
                    \/ /\ trace[r][i + 1].op \in {"open", "trim", "close"}
                       /\ trace[r][i + 1].pid = trace[r][i].pid
               ELSE thr[r].pc \in {"open2", "trim", "finally", "iter"}
        /\ \A i \in Calls(r, "sample") \ {1} : trace[r][i - 1].op = "stop"
        /\ Cardinality(Calls(r, "stop")) <= 1
        /\ \A i \in Calls(r, "stop") : \A j \in Calls(r, "record") : j < i

\* A run has ended in which the trim of the first process handled raised
\* and a later record was given its acquisition attempt, which raised too.
C11_Witness ==
    \E r \in Runs :
        /\ Returned(r)
        /\ \E i \in Calls(r, "trim") :
             /\ trace[r][i].h \in Opened(r)
             /\ trace[r][i].res = "raise"
             /\ \E j \in Calls(r, "record") :
                  /\ j > i
                  /\ trace[r][j].pid \notin {0, 4}
                  /\ trace[r][j + 1].op = "open"
                  /\ trace[r][j + 1].res = "raise"

\* C12: for one record the second OpenProcess is attempted if and only if
\* the first was refused, so at most one handle is obtained per record;
\* EmptyWorkingSet is called for the record if and only if one of the two
\* opens returned a handle; when both are refused neither EmptyWorkingSet
\* nor CloseHandle is called for it.
C12_TierCascade ==
    \A r \in Runs : \A pid \in Pids :
        LET first == OpensAt(r, pid, 1)
            second == OpensAt(r, pid, 2)
            got == {i \in first \cup second : trace[r][i].res = "handle"}
            trims == {i \in Handling(r, pid) : trace[r][i].op = "trim"}
            closes == {i \in Handling(r, pid) : trace[r][i].op = "close"}
        IN  /\ Cardinality(first) <= 1
            /\ Cardinality(second) <= 1
            /\ \A j \in second :
                 /\ j - 1 \in first
                 /\ trace[r][j - 1].res = "null"
            /\ \A i \in first :
                 trace[r][i].res = "null" =>
                   IF i < Len(trace[r])
                     THEN i + 1 \in second
                     ELSE thr[r].pc = "open2"
            /\ Cardinality(got) <= 1
            /\ Cardinality(trims) <= 1
            /\ \A j \in trims :
                 /\ j - 1 \in got
                 /\ trace[r][j].h = trace[r][j - 1].h
            /\ \A i \in got :
                 IF i < Len(trace[r])
                   THEN i + 1 \in trims
                   ELSE thr[r].pc = "trim"
            /\ got = {} => (trims = {} /\ closes = {})

\* A run has ended in which one record was refused at the first tier, given
\* a handle at the second and trimmed, and another was refused at both tiers
\* and neither trimmed nor closed.
C12_Witness ==
    \E r \in Runs :
        /\ Returned(r)
        /\ \E p, q \in Pids :
             /\ p # q
             /\ \E i \in OpensAt(r, p, 1) : trace[r][i].res = "null"
             /\ \E i \in OpensAt(r, p, 2) : trace[r][i].res = "handle"
             /\ \E i \in Handling(r, p) : trace[r][i].op = "trim"
             /\ \E i \in OpensAt(r, q, 1) : trace[r][i].res = "null"
             /\ \E i \in OpensAt(r, q, 2) : trace[r][i].res = "null"
             /\ Handling(r, q) \subseteq Calls(r, "open")

====
